---- MODULE Spec2Model ----
(***************************************************************************)
(* Model of fla-zoo's RWKV7 vision/video configuration classes             *)
(* (flazoo/models/und/rwkv7/configuration_rwkv7.py) and of the weight      *)
(* initialisation helpers (flazoo/helpers/linearizer.py).                  *)
(*                                                                         *)
(* Python's Optional values are modelled as sets with at most one          *)
(* element: {} is None and {v} is the value v.                             *)
(***************************************************************************)
EXTENDS Integers, Sequences, FiniteSets, TLC

VARIABLES
    cargs,      \* arguments of the last configuration constructor call
    cfg,        \* outcome of the last configuration constructor call
    callerAttn, \* the caller's attn dictionary object after that call
    fla,        \* the target model (parameters and requires_grad flags)
    call,       \* the last initialisation call: arguments, steps, outcome
    ncalls      \* number of initialisation calls made on the target

cfgVars == <<cargs, cfg, callerAttn>>
initVars == <<fla, call, ncalls>>
vars == <<cargs, cfg, callerAttn, fla, call, ncalls>>

(***************************************************************************)
(* Bounds of the model.                                                    *)
(***************************************************************************)
MaxLayers == 2      \* num_hidden_layers ranges over 1..MaxLayers
MaxValueDim == 4    \* value_dim scalars and list elements range over 0..MaxValueDim

None == {}
Some(v) == {v}
IsNone(o) == o = {}
Get(o) == CHOOSE v \in o : TRUE

(***************************************************************************)
(* Part 1: configuration_rwkv7.py                                          *)
(***************************************************************************)

\* Sequences over S of length 0..n
SeqUpTo(S, n) == UNION {[1..k -> S] : k \in 0..n}

ValueDimVals == 0..MaxValueDim

\* value_dim: Optional[Union[int, List[int]]]
ValueDimArgs ==
    {[kind |-> "none", int |-> 0, list |-> <<>>]}
    \cup {[kind |-> "int", int |-> v, list |-> <<>>] : v \in ValueDimVals}
    \cup {[kind |-> "list", int |-> 0, list |-> l] :
             l \in SeqUpTo(ValueDimVals \ {0}, MaxLayers + 1)}

\* attn: Optional[Dict].  A dictionary is a function from its keys to
\* Optional integers; "notdict" stands for an argument that is not a Dict.
AttnKeys == {"layers", "num_heads", "num_kv_heads", "window_size"}

AttnKeyVals(k) ==
    CASE k = "layers" -> {Some(0)}
      [] k = "num_heads" -> {Some(2)}
      [] k = "num_kv_heads" -> {Some(1)}
      [] k = "window_size" -> {None, Some(3)}

AttnDicts ==
    UNION {{d \in [K -> {None, Some(0), Some(1), Some(2), Some(3)}] :
               \A k \in K : d[k] \in AttnKeyVals(k)} : K \in SUBSET AttnKeys}

AttnArgs ==
    {[kind |-> "none", dict |-> <<>>], [kind |-> "notdict", dict |-> <<>>]}
    \cup {[kind |-> "dict", dict |-> d] : d \in AttnDicts}

ScanTypes == {"uni-scan", "bi-scan"}
TestScanArgs == {None, Some("cross-scan")}
MixerDimArgs == {None, Some(0)}
HiddenSizes == {2}
DecoderHiddenSizes == {3}

\* dict.get(key, default)
DictGet(d, k, default) == IF k \in DOMAIN d THEN d[k] ELSE default

\* d[k] = v on a dictionary
DictSet(d, k, v) == [x \in (DOMAIN d) \cup {k} |-> IF x = k THEN v ELSE d[x]]

\* AttnCheck with num_kv_heads always overwritten by num_heads.
AttnCheck_overwrite(attn) ==
    IF attn.kind = "none"
        THEN [err |-> "none", dict |-> attn.dict, arg |-> attn.dict, is_arg |-> TRUE]
    ELSE IF attn.kind = "notdict"
        THEN [err |-> "ValueError", dict |-> attn.dict, arg |-> attn.dict, is_arg |-> TRUE]
    ELSE IF "layers" \notin DOMAIN attn.dict
        THEN [err |-> "ValueError", dict |-> attn.dict, arg |-> attn.dict, is_arg |-> TRUE]
    ELSE IF "num_heads" \notin DOMAIN attn.dict
        THEN [err |-> "ValueError", dict |-> attn.dict, arg |-> attn.dict, is_arg |-> TRUE]
    ELSE LET d1 == DictSet(attn.dict, "num_kv_heads", attn.dict["num_heads"])
             d2 == DictSet(d1, "window_size", DictGet(d1, "window_size", None))
         IN [err |-> "none", dict |-> d2, arg |-> d2, is_arg |-> TRUE]

\* AttnCheck writing the defaults into a copy, attn = dict(attn), which is
\* what the configuration then keeps.
AttnCheck_copy(attn) ==
    IF attn.kind = "none"
        THEN [err |-> "none", dict |-> attn.dict, arg |-> attn.dict, is_arg |-> TRUE]
    ELSE IF attn.kind = "notdict"
        THEN [err |-> "ValueError", dict |-> attn.dict, arg |-> attn.dict, is_arg |-> TRUE]
    ELSE IF "layers" \notin DOMAIN attn.dict
        THEN [err |-> "ValueError", dict |-> attn.dict, arg |-> attn.dict, is_arg |-> TRUE]
    ELSE IF "num_heads" \notin DOMAIN attn.dict
        THEN [err |-> "ValueError", dict |-> attn.dict, arg |-> attn.dict, is_arg |-> TRUE]
    ELSE LET d1 == DictSet(attn.dict, "num_kv_heads",
                       DictGet(attn.dict, "num_kv_heads", attn.dict["num_heads"]))
             d2 == DictSet(d1, "window_size", DictGet(d1, "window_size", None))
         IN [err |-> "none", dict |-> d2, arg |-> attn.dict, is_arg |-> FALSE]

\* The hybrid-attention block of __init__: the error it raises ("none" when
\* it raises nothing), the dictionary the name attn refers to after it, the
\* dictionary object the caller passed after it, and whether attn still
\* refers to that object.  The block never rebinds attn: both item
\* assignments write into the object that was passed.
AttnCheck(attn) ==
    IF attn.kind = "none"
        THEN [err |-> "none", dict |-> attn.dict, arg |-> attn.dict, is_arg |-> TRUE]
    ELSE IF attn.kind = "notdict"
        THEN [err |-> "ValueError", dict |-> attn.dict, arg |-> attn.dict, is_arg |-> TRUE]
    ELSE IF "layers" \notin DOMAIN attn.dict
        THEN [err |-> "ValueError", dict |-> attn.dict, arg |-> attn.dict, is_arg |-> TRUE]
    ELSE IF "num_heads" \notin DOMAIN attn.dict
        THEN [err |-> "ValueError", dict |-> attn.dict, arg |-> attn.dict, is_arg |-> TRUE]
    ELSE LET d1 == DictSet(attn.dict, "num_kv_heads",
                       DictGet(attn.dict, "num_kv_heads", attn.dict["num_heads"]))
             d2 == DictSet(d1, "window_size", DictGet(d1, "window_size", None))
         IN [err |-> "none", dict |-> d2, arg |-> d2, is_arg |-> TRUE]

\* ValueDimCheck with the scalar broadcast to a list of one element.
ValueDimCheck_short(value_dim, hidden_size, num_hidden_layers) ==
    IF value_dim.kind = "none"
        THEN [err |-> "none", list |-> [i \in 1..num_hidden_layers |-> hidden_size]]
    ELSE IF value_dim.kind = "int"
        THEN IF ~(value_dim.int >= hidden_size)
                 THEN [err |-> "AssertionError", list |-> <<>>]
             ELSE IF ~(value_dim.int % hidden_size = 0)
                 THEN [err |-> "AssertionError", list |-> <<>>]
             ELSE [err |-> "none", list |-> <<value_dim.int>>]
    ELSE IF ~(Len(value_dim.list) = num_hidden_layers)
        THEN [err |-> "AssertionError", list |-> <<>>]
    ELSE IF \E i \in 1..Len(value_dim.list) :
                \/ ~(value_dim.list[i] >= hidden_size)
                \/ ~(value_dim.list[i] % hidden_size = 0)
        THEN [err |-> "AssertionError", list |-> <<>>]
    ELSE [err |-> "none", list |-> value_dim.list]

\* ValueDimCheck with the divisibility assertion on list elements left out.
ValueDimCheck_nodiv(value_dim, hidden_size, num_hidden_layers) ==
    IF value_dim.kind = "none"
        THEN [err |-> "none", list |-> [i \in 1..num_hidden_layers |-> hidden_size]]
    ELSE IF value_dim.kind = "int"
        THEN IF ~(value_dim.int >= hidden_size)
                 THEN [err |-> "AssertionError", list |-> <<>>]
             ELSE IF ~(value_dim.int % hidden_size = 0)
                 THEN [err |-> "AssertionError", list |-> <<>>]
             ELSE [err |-> "none",
                   list |-> [i \in 1..num_hidden_layers |-> value_dim.int]]
    ELSE IF ~(Len(value_dim.list) = num_hidden_layers)
        THEN [err |-> "AssertionError", list |-> <<>>]
    ELSE IF \E i \in 1..Len(value_dim.list) : ~(value_dim.list[i] >= hidden_size)
        THEN [err |-> "AssertionError", list |-> <<>>]
    ELSE [err |-> "none", list |-> value_dim.list]

\* The value_dim block of __init__: the error it raises and the list it
\* leaves in value_dim.
ValueDimCheck(value_dim, hidden_size, num_hidden_layers) ==
    IF value_dim.kind = "none"
        THEN [err |-> "none", list |-> [i \in 1..num_hidden_layers |-> hidden_size]]
    ELSE IF value_dim.kind = "int"
        THEN IF ~(value_dim.int >= hidden_size)
                 THEN [err |-> "AssertionError", list |-> <<>>]
             ELSE IF ~(value_dim.int % hidden_size = 0)
                 THEN [err |-> "AssertionError", list |-> <<>>]
             ELSE [err |-> "none",
                   list |-> [i \in 1..num_hidden_layers |-> value_dim.int]]
    ELSE IF ~(Len(value_dim.list) = num_hidden_layers)
        THEN [err |-> "AssertionError", list |-> <<>>]
    ELSE IF \E i \in 1..Len(value_dim.list) :
                \/ ~(value_dim.list[i] >= hidden_size)
                \/ ~(value_dim.list[i] % hidden_size = 0)
        THEN [err |-> "AssertionError", list |-> <<>>]
    ELSE [err |-> "none", list |-> value_dim.list]

TestScanDefault(test_scan_type, train_scan_type) ==
    IF IsNone(test_scan_type) THEN train_scan_type ELSE Get(test_scan_type)

\* ChannelMixerDefault written as "channel_mixer_dim or 4 * hidden_size".
ChannelMixerDefault_falsy(channel_mixer_dim, hidden_size) ==
    IF IsNone(channel_mixer_dim) \/ channel_mixer_dim = Some(0)
        THEN 4 * hidden_size ELSE Get(channel_mixer_dim)

ChannelMixerDefault(channel_mixer_dim, hidden_size) ==
    IF IsNone(channel_mixer_dim) THEN 4 * hidden_size ELSE Get(channel_mixer_dim)

NoConfig == [err |-> "nocall", obj |-> {}]

\* RWKV7VisionConfig.__init__: attn is checked first, then value_dim.
VisionInit(a) ==
    LET ac == AttnCheck(a.attn)
        vc == ValueDimCheck(a.value_dim, a.hidden_size, a.num_hidden_layers)
    IN IF ac.err # "none" THEN [err |-> ac.err, obj |-> {}, dict |-> ac.arg]
       ELSE IF vc.err # "none" THEN [err |-> vc.err, obj |-> {}, dict |-> ac.arg]
       ELSE [err |-> "none",
             dict |-> ac.arg,
             obj |-> {[class |-> "RWKV7VisionConfig",
                       hidden_size |-> a.hidden_size,
                       num_hidden_layers |-> a.num_hidden_layers,
                       train_scan_type |-> a.train_scan_type,
                       test_scan_type |->
                           TestScanDefault(a.test_scan_type, a.train_scan_type),
                       value_dim |-> vc.list,
                       attn |-> IF a.attn.kind = "none" THEN None ELSE Some(ac.dict),
                       attn_is_arg |-> ac.is_arg,
                       channel_mixer_dim |->
                           ChannelMixerDefault(a.channel_mixer_dim, a.hidden_size),
                       decoder_hidden_size |-> None,
                       decoder_channel_mixer_dim |-> None]}]

\* RWKV7VideoConfig.__init__: same checks, plus the decoder fields.
VideoInit(a) ==
    LET ac == AttnCheck(a.attn)
        vc == ValueDimCheck(a.value_dim, a.hidden_size, a.num_hidden_layers)
    IN IF ac.err # "none" THEN [err |-> ac.err, obj |-> {}, dict |-> ac.arg]
       ELSE IF vc.err # "none" THEN [err |-> vc.err, obj |-> {}, dict |-> ac.arg]
       ELSE [err |-> "none",
             dict |-> ac.arg,
             obj |-> {[class |-> "RWKV7VideoConfig",
                       hidden_size |-> a.hidden_size,
                       num_hidden_layers |-> a.num_hidden_layers,
                       train_scan_type |-> a.train_scan_type,
                       test_scan_type |->
                           TestScanDefault(a.test_scan_type, a.train_scan_type),
                       value_dim |-> vc.list,
                       attn |-> IF a.attn.kind = "none" THEN None ELSE Some(ac.dict),
                       attn_is_arg |-> ac.is_arg,
                       channel_mixer_dim |->
                           ChannelMixerDefault(a.channel_mixer_dim, a.hidden_size),
                       decoder_hidden_size |-> Some(a.decoder_hidden_size),
                       decoder_channel_mixer_dim |->
                           Some(ChannelMixerDefault(a.decoder_channel_mixer_dim,
                                                    a.decoder_hidden_size))]}]

ConfigArgs(class) ==
    [class : {class},
     hidden_size : HiddenSizes,
     num_hidden_layers : 1..MaxLayers,
     value_dim : ValueDimArgs,
     attn : AttnArgs,
     train_scan_type : ScanTypes,
     test_scan_type : TestScanArgs,
     channel_mixer_dim : MixerDimArgs,
     decoder_hidden_size : DecoderHiddenSizes,
     decoder_channel_mixer_dim :
         IF class = "RWKV7VideoConfig" THEN MixerDimArgs ELSE {None}]

NoArgs == [class |-> "none"]

\* A configuration object is constructed once: __init__ runs on a new object.
ConstructVision ==
    /\ cfg.err = "nocall"
    /\ \E a \in ConfigArgs("RWKV7VisionConfig") :
        LET r == VisionInit(a)
        IN /\ cargs' = a
           /\ cfg' = [err |-> r.err, obj |-> r.obj]
           /\ callerAttn' = r.dict
           /\ UNCHANGED initVars

ConstructVideo ==
    /\ cfg.err = "nocall"
    /\ \E a \in ConfigArgs("RWKV7VideoConfig") :
        LET r == VideoInit(a)
        IN /\ cargs' = a
           /\ cfg' = [err |-> r.err, obj |-> r.obj]
           /\ callerAttn' = r.dict
           /\ UNCHANGED initVars

(***************************************************************************)
(* Part 2: linearizer.py                                                   *)
(*                                                                         *)
(* A tensor is a record [shape, data] with data in row-major order.        *)
(***************************************************************************)
RECURSIVE Prod(_)
Prod(s) == IF s = <<>> THEN 1 ELSE Head(s) * Prod(Tail(s))

Numel(shape) == Prod(shape)

\* product of the dimensions after dimension k
Stride(shape, k) == Prod(SubSeq(shape, k + 1, Len(shape)))

\* coordinate along dimension k of the 0-based linear index lin
Coord(shape, lin, k) == (lin \div Stride(shape, k)) % shape[k]

\* torch broadcasting of a source shape to a destination shape
Broadcastable(src, dst) ==
    /\ Len(src) <= Len(dst)
    /\ \A k \in 1..Len(src) :
          LET d == dst[k + Len(dst) - Len(src)]
          IN src[k] = d \/ src[k] = 1

RECURSIVE SrcLin(_, _, _, _)
SrcLin(src, dst, lin, k) ==
    IF k > Len(src) THEN 0
    ELSE (IF src[k] = 1 THEN 0 ELSE Coord(dst, lin, k + Len(dst) - Len(src)))
             * Stride(src, k)
         + SrcLin(src, dst, lin, k + 1)

\* dst.copy_(src): the result has dst's shape; ok is FALSE when torch raises
\* RuntimeError because src does not broadcast to dst.
CopyInto(dst, src) ==
    IF src.shape = dst.shape
        THEN [ok |-> TRUE, t |-> [shape |-> dst.shape, data |-> src.data]]
    ELSE IF Broadcastable(src.shape, dst.shape)
        THEN [ok |-> TRUE,
              t |-> [shape |-> dst.shape,
                     data |-> [i \in 1..Numel(dst.shape) |->
                                  src.data[SrcLin(src.shape, dst.shape, i - 1, 1) + 1]]]]
        ELSE [ok |-> FALSE, t |-> dst]

\* t.unsqueeze(0)
Unsqueeze0(t) == [shape |-> <<1>> \o t.shape, data |-> t.data]

\* t[1:]
SliceFrom1(t) ==
    LET rows == IF t.shape[1] >= 1 THEN t.shape[1] - 1 ELSE 0
        row == Stride(t.shape, 1)
    IN [shape |-> <<rows>> \o Tail(t.shape),
        data |-> SubSeq(t.data, row + 1, Len(t.data))]

\* torch.equal(a, b)
TorchEqual(a, b) == a.shape = b.shape /\ a.data = b.data

Filled(shape, base) == [shape |-> shape, data |-> [i \in 1..Numel(shape) |-> base + i]]
Zeros(shape) == [shape |-> shape, data |-> [i \in 1..Numel(shape) |-> 0]]

(***************************************************************************)
(* Models.  Parameter names are paths (tuples of name components).         *)
(***************************************************************************)
NumLayers == 1     \* transformer blocks of the target and of the sources
HiddenDim == 2     \* size of every hidden dimension of the target
NumPatches == 2    \* positions of the target's position embeddings

Digits == <<"0", "1", "2", "3", "4", "5", "6", "7", "8", "9">>
LayerIds == 0..(NumLayers - 1)
Kinds == <<"weight", "bias">>

\* keys of param_mapping, in the order of the dictionary literal
MappingKeys ==
    << <<"attn", "q_proj">>, <<"attn", "k_proj">>, <<"attn", "v_proj">>,
       <<"attn", "o_proj">>, <<"ln_1">>, <<"ln_2">>,
       <<"channel_mixer", "net", "0">>, <<"channel_mixer", "net", "2">> >>

FlaMapping ==
    << <<"attn", "q_proj">>, <<"attn", "k_proj">>, <<"attn", "v_proj">>,
       <<"attn", "o_proj">>, <<"ln_1">>, <<"ln_2">>,
       <<"channel_mixer", "net", "0">>, <<"channel_mixer", "net", "2">> >>

\* DinoMapping with mlp.fc1 and mlp.fc2 exchanged.
DinoMapping_swapped ==
    << <<"attention", "attention", "query">>, <<"attention", "attention", "key">>,
       <<"attention", "attention", "value">>, <<"attention", "output", "dense">>,
       <<"norm1">>, <<"norm2">>, <<"mlp", "fc2">>, <<"mlp", "fc1">> >>

DinoMapping ==
    << <<"attention", "attention", "query">>, <<"attention", "attention", "key">>,
       <<"attention", "attention", "value">>, <<"attention", "output", "dense">>,
       <<"norm1">>, <<"norm2">>, <<"mlp", "fc1">>, <<"mlp", "fc2">> >>

SiglipMapping ==
    << <<"self_attn", "q_proj">>, <<"self_attn", "k_proj">>,
       <<"self_attn", "v_proj">>, <<"self_attn", "out_proj">>,
       <<"layer_norm1">>, <<"layer_norm2">>, <<"mlp", "fc1">>, <<"mlp", "fc2">> >>

ClipMapping ==
    << <<"self_attn", "q_proj">>, <<"self_attn", "k_proj">>,
       <<"self_attn", "v_proj">>, <<"self_attn", "out_proj">>,
       <<"layer_norm1">>, <<"layer_norm2">>, <<"mlp", "fc1">>, <<"mlp", "fc2">> >>

BlockName(prefix, l, module, kind) == prefix \o <<Digits[l + 1]>> \o module \o <<kind>>

\* names of the target model's parameters
TgtBlock(l, j, k) == BlockName(<<"blocks">>, l, MappingKeys[j], Kinds[k])
TgtPatchW == <<"embeddings", "patch_embeddings", "projection", "weight">>
TgtPatchB == <<"embeddings", "patch_embeddings", "projection", "bias">>
TgtPos == <<"embeddings", "position_embeddings">>
TgtClsW == <<"classifier", "weight">>
TgtClsB == <<"classifier", "bias">>

TgtBlockNames == {TgtBlock(l, j, k) : l \in LayerIds, j \in 1..Len(MappingKeys), k \in 1..2}
TgtNames == TgtBlockNames \cup {TgtPatchW, TgtPatchB, TgtPos, TgtClsW, TgtClsB}

TgtShape(n) ==
    IF n = TgtPos THEN <<1, NumPatches, HiddenDim>> ELSE <<HiddenDim>>

\* the target model as constructed: every parameter trainable
FreshTarget ==
    [ref |-> "fla_model",
     params |-> [n \in TgtNames |-> Zeros(TgtShape(n))],
     requires_grad |-> [n \in TgtNames |-> TRUE]]

\* sub in s, on strings
Contains(s, sub) ==
    \E i \in 1..(Len(s) - Len(sub) + 1) : SubSeq(s, i, i + Len(sub) - 1) = sub

\* The name named_parameters() yields for a parameter: its components
\* joined by dots.
RECURSIVE DottedName(_)
DottedName(n) ==
    IF Len(n) = 0 THEN ""
    ELSE IF Len(n) = 1 THEN n[1]
    ELSE n[1] \o "." \o DottedName(Tail(n))

\* "channel_mixer" in n: a substring test on the dotted name
IsChannelMixer(n) == Contains(DottedName(n), "channel_mixer")

(***************************************************************************)
(* Source models, by family.  A defect names the tensor of the source      *)
(* whose shape differs from the target's: one that copy_ rejects ("pos",   *)
(* "cls", "block") or one that copy_ broadcasts ("patch_bias", and         *)
(* "cls_bcast", a classifier with a single output: weight and bias).       *)
(***************************************************************************)
Families == {"fla", "dino", "siglip", "clip"}

MappingOf(family) ==
    CASE family = "fla" -> FlaMapping
      [] family = "dino" -> DinoMapping
      [] family = "siglip" -> SiglipMapping
      [] family = "clip" -> ClipMapping

\* the modules of a block of each source family, in the order of the
\* target's modules they correspond to
SrcModules(family) ==
    CASE family = "fla" ->
           << <<"attn", "q_proj">>, <<"attn", "k_proj">>, <<"attn", "v_proj">>,
              <<"attn", "o_proj">>, <<"ln_1">>, <<"ln_2">>,
              <<"channel_mixer", "net", "0">>, <<"channel_mixer", "net", "2">> >>
      [] family = "dino" ->
           << <<"attention", "attention", "query">>, <<"attention", "attention", "key">>,
              <<"attention", "attention", "value">>, <<"attention", "output", "dense">>,
              <<"norm1">>, <<"norm2">>, <<"mlp", "fc1">>, <<"mlp", "fc2">> >>
      [] family \in {"siglip", "clip"} ->
           << <<"self_attn", "q_proj">>, <<"self_attn", "k_proj">>,
              <<"self_attn", "v_proj">>, <<"self_attn", "out_proj">>,
              <<"layer_norm1">>, <<"layer_norm2">>, <<"mlp", "fc1">>, <<"mlp", "fc2">> >>

SrcBlockPrefix(family) == IF family = "fla" THEN <<"blocks">> ELSE <<"encoder", "layers">>
SrcBlock(family, l, j, k) ==
    BlockName(SrcBlockPrefix(family), l, SrcModules(family)[j], Kinds[k])

SrcPatchWName(family) ==
    IF family = "fla" THEN <<"embeddings", "patch_embeddings", "projection", "weight">>
    ELSE <<"embeddings", "patch_embedding", "weight">>
SrcPatchBName(family) ==
    IF family = "fla" THEN <<"embeddings", "patch_embeddings", "projection", "bias">>
    ELSE <<"embeddings", "patch_embedding", "bias">>
SrcPosName(family) ==
    IF family = "fla" THEN <<"embeddings", "position_embeddings">>
    ELSE <<"embeddings", "position_embedding", "weight">>
SrcClsWName == <<"classifier", "weight">>
SrcClsBName == <<"classifier", "bias">>

\* shape of the source's position table: (1, N, D) in the FLA family,
\* (N, D) in SigLIP2 and (1 + N, D) with the class token in CLIP and DINOv2
SrcPosShape(family, extra) ==
    CASE family = "fla" -> <<1, NumPatches + extra, HiddenDim>>
      [] family = "siglip" -> <<NumPatches + extra, HiddenDim>>
      [] family = "clip" -> <<NumPatches + 1 + extra, HiddenDim>>
      [] family = "dino" -> <<1, NumPatches + 1 + extra, HiddenDim>>

SourceModel(family, defect, ref) ==
    LET blockNames == {SrcBlock(family, l, j, k) :
                          l \in LayerIds, j \in 1..Len(MappingKeys), k \in 1..2}
        names == blockNames
                 \cup {SrcPatchWName(family), SrcPatchBName(family), SrcPosName(family),
                       SrcClsWName}
                 \cup (IF defect = "no_cls_bias" THEN {} ELSE {SrcClsBName})
        blockTensor(l, j, k) ==
            Filled(IF defect = "block" /\ j = 6 /\ k = 1
                       THEN <<HiddenDim + 1>> ELSE <<HiddenDim>>,
                   100 * (l + 1) + 10 * j + 5 * (k - 1))
        tensor(n) ==
            IF n \in blockNames
                THEN LET c == CHOOSE c \in LayerIds \X (1..Len(MappingKeys)) \X (1..2) :
                                  SrcBlock(family, c[1], c[2], c[3]) = n
                     IN blockTensor(c[1], c[2], c[3])
            ELSE IF n = SrcPatchWName(family) THEN Filled(<<HiddenDim>>, 10)
            ELSE IF n = SrcPatchBName(family)
                THEN Filled(IF defect = "patch_bias" THEN <<1>> ELSE <<HiddenDim>>, 20)
            ELSE IF n = SrcPosName(family)
                THEN Filled(SrcPosShape(family, IF defect = "pos" THEN 1 ELSE 0), 30)
            ELSE IF n = SrcClsWName
                THEN Filled(IF defect = "cls" THEN <<HiddenDim + 1>>
                            ELSE IF defect = "cls_bcast" THEN <<1>>
                            ELSE <<HiddenDim>>, 50)
            ELSE Filled(IF defect = "cls_bcast" THEN <<1>> ELSE <<HiddenDim>>, 60)
    IN [ref |-> ref,
        family |-> family,
        params |-> [n \in names |-> tensor(n)],
        requires_grad |-> [n \in names |-> TRUE]]

FlaDefects == {"none", "no_cls_bias", "patch_bias", "pos", "cls", "cls_bcast", "block"}
DinoDefects == {"none", "block"}
SiglipDefects == {"none", "no_cls_bias", "patch_bias", "pos", "cls", "cls_bcast", "block"}
ClipDefects == {"none", "patch_bias", "pos", "block"}

\* the models a caller can pass as another_fla_model
OtherFlaModels == {SourceModel("fla", d, "another_fla_model") : d \in FlaDefects}

\* AutoModel.from_pretrained(name): the loaded model, or None when the
\* loader raises (the identifier does not resolve).
CheckpointIds(family) ==
    {<<family, d>> : d \in (CASE family = "dino" -> DinoDefects
                              [] family = "siglip" -> SiglipDefects
                              [] family = "clip" -> ClipDefects
                              [] family = "fla" -> {})}
    \cup {<<family, "missing">>}

Hub ==
    [id \in CheckpointIds("dino") \cup CheckpointIds("siglip") \cup CheckpointIds("clip") |->
        IF id[2] = "missing" THEN None
        ELSE IF id[1] = "dino" THEN Some(SourceModel("dino", id[2], "checkpoint"))
        ELSE Some([ref |-> "checkpoint",
                   vision_model |->
                       SourceModel(id[1], id[2], "checkpoint.vision_model")])]

FromPretrained(id) == Hub[id]

(***************************************************************************)
(* The steps of an initialisation procedure.  A run r is the target model  *)
(* and the source model so far, the exception raised so far ("none" when   *)
(* there is none) and the steps executed so far, the raising one included. *)
(* A step of a run that has raised does nothing: the exception propagates  *)
(* to the caller.                                                          *)
(***************************************************************************)
StartRun(tgt, src) == [fla |-> tgt, src |-> src, err |-> "none", trace |-> <<>>]

\* the run after a copy_ whose result is c
Copied(r, step, name, c) ==
    IF c.ok
        THEN [fla |-> [r.fla EXCEPT !.params[name] = c.t],
              src |-> r.src,
              err |-> "none",
              trace |-> Append(r.trace, step)]
        ELSE [fla |-> r.fla, src |-> r.src, err |-> "RuntimeError",
              trace |-> Append(r.trace, step)]

\* fla_model.<name>.data.copy_(srcT)
CopyStep(r, step, name, srcT) ==
    IF r.err # "none" THEN r
    ELSE Copied(r, step, name, CopyInto(r.fla.params[name], srcT))

\* assert torch.equal(fla_model.<name>, srcT)
AssertStep(r, step, name, srcT) ==
    IF r.err # "none" THEN r
    ELSE IF TorchEqual(r.fla.params[name], srcT)
        THEN [r EXCEPT !.trace = Append(@, step)]
        ELSE [r EXCEPT !.err = "AssertionError", !.trace = Append(@, step)]

\* FreezeMlp freezing only the weights of the feed-forward block.
FreezeMlp_weights(r, train_mlp) ==
    IF r.err # "none" \/ train_mlp THEN r
    ELSE [fla |-> [r.fla EXCEPT !.requires_grad =
                      [n \in DOMAIN @ |->
                          IF IsChannelMixer(n) /\ n[Len(n)] = "weight" THEN FALSE
                          ELSE @[n]]],
          src |-> r.src,
          err |-> "none",
          trace |-> Append(r.trace, "freeze")]

\* FreezeMlp walking the parameters of the source model as well.
FreezeMlp_source(r, train_mlp) ==
    IF r.err # "none" \/ train_mlp THEN r
    ELSE [fla |-> [r.fla EXCEPT !.requires_grad =
                      [n \in DOMAIN @ |-> IF IsChannelMixer(n) THEN FALSE ELSE @[n]]],
          src |-> [r.src EXCEPT !.requires_grad =
                      [n \in DOMAIN @ |-> IF IsChannelMixer(n) THEN FALSE ELSE @[n]]],
          err |-> "none",
          trace |-> Append(r.trace, "freeze")]

\* for n, p in fla_model.named_parameters():
\*     if "channel_mixer" in n: p.requires_grad_(False)
FreezeMlp(r, train_mlp) ==
    IF r.err # "none" \/ train_mlp THEN r
    ELSE [fla |-> [r.fla EXCEPT !.requires_grad =
                      [n \in DOMAIN @ |-> IF IsChannelMixer(n) THEN FALSE ELSE @[n]]],
          src |-> r.src,
          err |-> "none",
          trace |-> Append(r.trace, "freeze")]

\* initialize_custom_mapping: entry e of the walk over the target's blocks is
\* (layer, mapping key, weight or bias), layers first, then the mapping's
\* order.
NumEntries == NumLayers * Len(MappingKeys) * 2
EntryLayer(e) == (e - 1) \div (Len(MappingKeys) * 2)
EntryKey(e) == (((e - 1) \div 2) % Len(MappingKeys)) + 1
EntryKind(e) == ((e - 1) % 2) + 1

EntryTargets == [e \in 1..NumEntries |-> TgtBlock(EntryLayer(e), EntryKey(e), EntryKind(e))]
EntryTarget(e) == EntryTargets[e]

\* the source parameter matched with entry e under each mapping table
EntrySources ==
    [family \in Families |->
        [e \in 1..NumEntries |->
            BlockName(SrcBlockPrefix(family), EntryLayer(e),
                      MappingOf(family)[EntryKey(e)], Kinds[EntryKind(e)])]]
EntrySource(family, mapping, e) ==
    IF mapping = MappingOf(family) THEN EntrySources[family][e]
    ELSE BlockName(SrcBlockPrefix(family), EntryLayer(e), mapping[EntryKey(e)],
                   Kinds[EntryKind(e)])
EntryOf == [n \in TgtBlockNames |-> CHOOSE e \in 1..NumEntries : EntryTarget(e) = n]

\* the entries whose copy raises
FailingEntries(params, src, mapping) ==
    {e \in 1..NumEntries :
        ~Broadcastable(src.params[EntrySource(src.family, mapping, e)].shape,
                       params[EntryTarget(e)].shape)}

\* the first entry whose copy raises (NumEntries + 1 when none does)
FirstOf(fails) ==
    IF fails = {} THEN NumEntries + 1 ELSE CHOOSE e \in fails : \A f \in fails : e <= f

\* The walk copies entry after entry until a copy raises.  Every entry
\* writes its own target parameter, so the result is: the entries before
\* entry stop, the first one that raises, are copied, the others are as they
\* were.
MappingUpTo(r, src, mapping, stop) ==
    [fla |-> [r.fla EXCEPT !.params =
                 [n \in DOMAIN @ |->
                     IF n \in TgtBlockNames /\ EntryOf[n] < stop
                         THEN CopyInto(@[n],
                                  src.params[EntrySource(src.family, mapping,
                                                         EntryOf[n])]).t
                         ELSE @[n]]],
     src |-> r.src,
     err |-> IF stop > NumEntries THEN "none" ELSE "RuntimeError",
     trace |-> Append(r.trace, "mapping")]

InitializeCustomMapping(r, src, mapping) ==
    IF r.err # "none" THEN r
    ELSE MappingUpTo(r, src, mapping, FirstOf(FailingEntries(r.fla.params, src, mapping)))

\* ClipPos dropping the last position instead of the leading class token.
ClipPos_droplast(src) ==
    Unsqueeze0(
        [shape |-> <<src.params[SrcPosName("clip")].shape[1] - 1>>
                       \o Tail(src.params[SrcPosName("clip")].shape),
         data |-> SubSeq(src.params[SrcPosName("clip")].data, 1,
                         Len(src.params[SrcPosName("clip")].data)
                             - Stride(src.params[SrcPosName("clip")].shape, 1))])

\* the source's position embeddings in the layout each procedure copies
FlaPos(src) == src.params[SrcPosName("fla")]
SiglipPos(src) == Unsqueeze0(src.params[SrcPosName("siglip")])
ClipPos(src) == Unsqueeze0(SliceFrom1(src.params[SrcPosName("clip")]))

\* the three copies of the "if init_embedding:" block
EmbeddingCopies(r, w, b, pos) ==
    CopyStep(CopyStep(CopyStep(r, "copy_patch_weight", TgtPatchW, w),
                      "copy_patch_bias", TgtPatchB, b),
             "copy_position", TgtPos, pos)

\* the three assertions that follow them
EmbeddingAsserts(r, w, b, pos) ==
    AssertStep(AssertStep(AssertStep(r, "assert_patch_weight", TgtPatchW, w),
                          "assert_patch_bias", TgtPatchB, b),
               "assert_position", TgtPos, pos)

\* InitEmbedding with each assertion placed right after its copy.
InitEmbedding_interleaved(r, src, pos, init_embedding) ==
    IF ~init_embedding THEN r
    ELSE AssertStep(
           CopyStep(
             AssertStep(
               CopyStep(
                 AssertStep(
                   CopyStep(r, "copy_patch_weight", TgtPatchW,
                            src.params[SrcPatchWName(src.family)]),
                   "assert_patch_weight", TgtPatchW,
                   src.params[SrcPatchWName(src.family)]),
                 "copy_patch_bias", TgtPatchB, src.params[SrcPatchBName(src.family)]),
               "assert_patch_bias", TgtPatchB, src.params[SrcPatchBName(src.family)]),
             "copy_position", TgtPos, pos),
           "assert_position", TgtPos, pos)

\* the "if init_embedding:" block
InitEmbedding(r, src, pos, init_embedding) ==
    IF ~init_embedding THEN r
    ELSE EmbeddingAsserts(
             EmbeddingCopies(r, src.params[SrcPatchWName(src.family)],
                             src.params[SrcPatchBName(src.family)], pos),
             src.params[SrcPatchWName(src.family)],
             src.params[SrcPatchBName(src.family)], pos)

\* if <source>.classifier.bias is not None: copy it
HeadBias(r, src) ==
    IF SrcClsBName \in DOMAIN src.params
        THEN CopyStep(r, "copy_classifier_bias", TgtClsB, src.params[SrcClsBName])
        ELSE r

\* the "if init_head:" block
InitHead(r, src, init_head) ==
    IF ~init_head THEN r
    ELSE HeadBias(CopyStep(r, "copy_classifier_weight", TgtClsW,
                           src.params[SrcClsWName]), src)

\* Return with the test of return_pretrained inverted.
Return_inverted(r, src, return_pretrained) ==
    [fla |-> r.fla,
     err |-> r.err,
     trace |-> IF r.err = "none" THEN Append(r.trace, "return") ELSE r.trace,
     src |-> src,
     srcAfter |-> r.src,
     ret |-> IF r.err # "none" THEN <<>>
             ELSE IF return_pretrained THEN <<r.fla.ref>>
             ELSE <<r.fla.ref, src.ref>>]

\* the return statement: nothing is returned by a run that has raised
Return(r, src, return_pretrained) ==
    [fla |-> r.fla,
     err |-> r.err,
     trace |-> IF r.err = "none" THEN Append(r.trace, "return") ELSE r.trace,
     src |-> src,
     srcAfter |-> r.src,
     ret |-> IF r.err # "none" THEN <<>>
             ELSE IF ~return_pretrained THEN <<r.fla.ref>>
             ELSE <<r.fla.ref, src.ref>>]

\* AutoModel.from_pretrained raised
LoadFailed(tgt) ==
    [fla |-> tgt, err |-> "OSError", trace |-> <<"load">>, src |-> <<>>,
     srcAfter |-> <<>>, ret |-> <<>>]

LoadedRun(tgt, src) == [fla |-> tgt, src |-> src, err |-> "none", trace |-> <<"load">>]

InitFromFlaVisionUnd(tgt, another, train_mlp, init_embedding, init_head, return_pretrained) ==
    Return(
        InitHead(
            InitEmbedding(
                FreezeMlp(
                    InitializeCustomMapping(StartRun(tgt, another), another, FlaMapping),
                    train_mlp),
                another, FlaPos(another), init_embedding),
            another, init_head),
        another, return_pretrained)

DinoRun(tgt, dino, train_mlp, return_pretrained) ==
    Return(
        FreezeMlp(InitializeCustomMapping(LoadedRun(tgt, dino), dino, DinoMapping), train_mlp),
        dino, return_pretrained)

InitFromDino2BaseP14(tgt, dino_model, train_mlp, init_embedding, return_pretrained) ==
    IF FromPretrained(dino_model) = None THEN LoadFailed(tgt)
    ELSE DinoRun(tgt, Get(FromPretrained(dino_model)), train_mlp, return_pretrained)

InitFromDino2SmallP14(tgt, dino_model, train_mlp, init_embedding, return_pretrained) ==
    IF FromPretrained(dino_model) = None THEN LoadFailed(tgt)
    ELSE DinoRun(tgt, Get(FromPretrained(dino_model)), train_mlp, return_pretrained)

SiglipRun(tgt, siglip, train_mlp, init_embedding, init_head, return_pretrained) ==
    Return(
        InitHead(
            FreezeMlp(
                InitEmbedding(
                    InitializeCustomMapping(LoadedRun(tgt, siglip), siglip, SiglipMapping),
                    siglip, SiglipPos(siglip), init_embedding),
                train_mlp),
            siglip, init_head),
        siglip, return_pretrained)

InitFromSiglip2BaseP16(tgt, siglip_model, train_mlp, init_embedding, init_head, return_pretrained) ==
    IF FromPretrained(siglip_model) = None THEN LoadFailed(tgt)
    ELSE SiglipRun(tgt, Get(FromPretrained(siglip_model)).vision_model,
                   train_mlp, init_embedding, init_head, return_pretrained)

ClipRun(tgt, clip, train_mlp, init_embedding, return_pretrained) ==
    Return(
        FreezeMlp(
            InitEmbedding(
                InitializeCustomMapping(LoadedRun(tgt, clip), clip, ClipMapping),
                clip, ClipPos(clip), init_embedding),
            train_mlp),
        clip, return_pretrained)

InitFromClipBaseP16(tgt, clip_model, train_mlp, init_embedding, return_pretrained) ==
    IF FromPretrained(clip_model) = None THEN LoadFailed(tgt)
    ELSE ClipRun(tgt, Get(FromPretrained(clip_model)).vision_model,
                 train_mlp, init_embedding, return_pretrained)

(***************************************************************************)
(* The calls.  Each action is one whole call on the target model; call     *)
(* records its arguments, the target before it, the source before and      *)
(* after it, and its outcome.                                              *)
(***************************************************************************)
MaxCalls == 1      \* initialisation calls made on the target model

\* The target models a caller passes in: a model as constructed, or a model
\* that an earlier init_from_dino2_base_p14 call with its default flags
\* (train_mlp=False) has initialised.
InitialTargets ==
    {FreshTarget,
     InitFromDino2BaseP14(FreshTarget, <<"dino", "none">>, FALSE, TRUE, FALSE).fla}

NoCall == [proc |-> "none"]

Record(proc, t, e, h, p, r) ==
    [proc |-> proc, train_mlp |-> t, init_embedding |-> e, init_head |-> h,
     return_pretrained |-> p, pre |-> fla,
     src |-> IF r.src = <<>> THEN None ELSE Some(r.src),
     srcAfter |-> IF r.src = <<>> THEN None ELSE Some(r.srcAfter),
     err |-> r.err, trace |-> r.trace, ret |-> r.ret]

CallFlaVisionUnd ==
    /\ ncalls < MaxCalls
    /\ \E another \in OtherFlaModels, t, e, h, p \in BOOLEAN :
          \E r \in {InitFromFlaVisionUnd(fla, another, t, e, h, p)} :
             /\ fla' = r.fla
             /\ call' = Record("init_from_fla_vision_und", t, e, h, p, r)
    /\ ncalls' = ncalls + 1
    /\ UNCHANGED cfgVars

CallDino2BaseP14 ==
    /\ ncalls < MaxCalls
    /\ \E id \in CheckpointIds("dino"), t, e, p \in BOOLEAN :
          \E r \in {InitFromDino2BaseP14(fla, id, t, e, p)} :
             /\ fla' = r.fla
             /\ call' = Record("init_from_dino2_base_p14", t, e, FALSE, p, r)
    /\ ncalls' = ncalls + 1
    /\ UNCHANGED cfgVars

CallDino2SmallP14 ==
    /\ ncalls < MaxCalls
    /\ \E id \in CheckpointIds("dino"), t, e, p \in BOOLEAN :
          \E r \in {InitFromDino2SmallP14(fla, id, t, e, p)} :
             /\ fla' = r.fla
             /\ call' = Record("init_from_dino2_small_p14", t, e, FALSE, p, r)
    /\ ncalls' = ncalls + 1
    /\ UNCHANGED cfgVars

CallSiglip2BaseP16 ==
    /\ ncalls < MaxCalls
    /\ \E id \in CheckpointIds("siglip"), t, e, h, p \in BOOLEAN :
          \E r \in {InitFromSiglip2BaseP16(fla, id, t, e, h, p)} :
             /\ fla' = r.fla
             /\ call' = Record("init_from_siglip2_base_p16_224", t, e, h, p, r)
    /\ ncalls' = ncalls + 1
    /\ UNCHANGED cfgVars

CallClipBaseP16 ==
    /\ ncalls < MaxCalls
    /\ \E id \in CheckpointIds("clip"), t, e, p \in BOOLEAN :
          \E r \in {InitFromClipBaseP16(fla, id, t, e, p)} :
             /\ fla' = r.fla
             /\ call' = Record("init_from_clip_base_p16_224", t, e, FALSE, p, r)
    /\ ncalls' = ncalls + 1
    /\ UNCHANGED cfgVars

ConfigInit ==
    /\ cargs = NoArgs
    /\ cfg = NoConfig
    /\ callerAttn = <<>>

\* before any constructor call; the models are not involved
ConfigOnlyInit ==
    /\ ConfigInit
    /\ fla = FreshTarget
    /\ call = NoCall
    /\ ncalls = 0

ConfigNext == ConstructVision \/ ConstructVideo

ConfigSpec == ConfigOnlyInit /\ [][ConfigNext]_vars

Init ==
    /\ ConfigInit
    /\ fla \in InitialTargets
    /\ call = NoCall
    /\ ncalls = 0

Next ==
    \/ CallFlaVisionUnd
    \/ CallDino2BaseP14
    \/ CallDino2SmallP14
    \/ CallSiglip2BaseP16
    \/ CallClipBaseP16

Spec == Init /\ [][Next]_vars

(***************************************************************************)
(* Claims about the configuration classes (checked under ConfigSpec).      *)
(***************************************************************************)
Constructed == cargs.class \in {"RWKV7VisionConfig", "RWKV7VideoConfig"}

\* value_dim is one of the valid inputs of the specification
ValidValueDimArg ==
    \/ cargs.value_dim.kind = "none"
    \/ /\ cargs.value_dim.kind = "int"
       /\ cargs.value_dim.int >= cargs.hidden_size
       /\ \E m \in 1..MaxValueDim : cargs.value_dim.int = m * cargs.hidden_size
    \/ /\ cargs.value_dim.kind = "list"
       /\ Len(cargs.value_dim.list) = cargs.num_hidden_layers
       /\ \A i \in 1..Len(cargs.value_dim.list) :
              /\ cargs.value_dim.list[i] >= cargs.hidden_size
              /\ \E m \in 1..MaxValueDim :
                     cargs.value_dim.list[i] = m * cargs.hidden_size

\* attn is omitted or is a dictionary with both required keys
ValidAttnArg ==
    \/ cargs.attn.kind = "none"
    \/ /\ cargs.attn.kind = "dict"
       /\ {"layers", "num_heads"} \subseteq DOMAIN cargs.attn.dict

\* C1: for both classes and every valid value_dim (the other arguments being
\* valid), construction succeeds and config.value_dim is a list of length
\* num_hidden_layers: all hidden_size when value_dim is omitted, all the
\* scalar when it is a scalar, and the given list when it is a list.
C1_ValidValueDimBroadcast ==
    (Constructed /\ ValidValueDimArg /\ ValidAttnArg) =>
        /\ cfg.err = "none"
        /\ Cardinality(cfg.obj) = 1
        /\ \A c \in cfg.obj :
              /\ c.class = cargs.class
              /\ Len(c.value_dim) = cargs.num_hidden_layers
              /\ cargs.value_dim.kind = "none" =>
                     \A i \in 1..Len(c.value_dim) : c.value_dim[i] = cargs.hidden_size
              /\ cargs.value_dim.kind = "int" =>
                     \A i \in 1..Len(c.value_dim) : c.value_dim[i] = cargs.value_dim.int
              /\ cargs.value_dim.kind = "list" => c.value_dim = cargs.value_dim.list

C1_Witness ==
    /\ cargs.class = "RWKV7VideoConfig"
    /\ cargs.value_dim.kind = "int"
    /\ cargs.value_dim.int = 2 * cargs.hidden_size
    /\ cargs.num_hidden_layers = MaxLayers
    /\ cfg.err = "none"
    /\ \E c \in cfg.obj : Len(c.value_dim) = MaxLayers

\* C2: for both classes and every invalid value_dim (a scalar or list element
\* below hidden_size or not a multiple of it, or a list of the wrong
\* length), construction fails with a validation error and no configuration
\* object is returned.
C2_InvalidValueDimRejected ==
    (Constructed /\ ~ValidValueDimArg) =>
        /\ cfg.err \in {"AssertionError", "ValueError"}
        /\ cfg.obj = {}

C2_Witness ==
    /\ cargs.class = "RWKV7VisionConfig"
    /\ cargs.value_dim.kind = "list"
    /\ Len(cargs.value_dim.list) = cargs.num_hidden_layers
    /\ \E i \in 1..Len(cargs.value_dim.list) :
           /\ cargs.value_dim.list[i] > cargs.hidden_size
           /\ cargs.value_dim.list[i] % cargs.hidden_size # 0
    /\ cargs.attn.kind = "none"
    /\ cfg.err = "AssertionError"
    /\ cfg.obj = {}

\* C3: for both classes, an attn descriptor without 'layers' or without
\* 'num_heads' makes construction fail with a validation error; one with
\* both succeeds (value_dim being valid), and in config.attn num_kv_heads is
\* num_heads when it was absent, window_size is None when it was absent, and
\* a supplied num_kv_heads or window_size is kept.
C3_AttnDescriptor ==
    (Constructed /\ cargs.attn.kind = "dict") =>
        LET d == cargs.attn.dict
        IN /\ ~({"layers", "num_heads"} \subseteq DOMAIN d) =>
                  cfg.err = "ValueError" /\ cfg.obj = {}
           /\ ({"layers", "num_heads"} \subseteq DOMAIN d /\ ValidValueDimArg) =>
                  /\ cfg.err = "none"
                  /\ Cardinality(cfg.obj) = 1
                  /\ \A c \in cfg.obj : \A r \in c.attn :
                        /\ DOMAIN r = DOMAIN d \cup {"num_kv_heads", "window_size"}
                        /\ r["layers"] = d["layers"]
                        /\ r["num_heads"] = d["num_heads"]
                        /\ r["num_kv_heads"] =
                               IF "num_kv_heads" \in DOMAIN d
                                   THEN d["num_kv_heads"] ELSE d["num_heads"]
                        /\ r["window_size"] =
                               IF "window_size" \in DOMAIN d
                                   THEN d["window_size"] ELSE None
                  /\ \A c \in cfg.obj : c.attn # None

C3_Witness ==
    /\ cargs.class = "RWKV7VideoConfig"
    /\ cargs.attn.kind = "dict"
    /\ DOMAIN cargs.attn.dict = {"layers", "num_heads", "num_kv_heads"}
    /\ cargs.attn.dict["num_heads"] = Some(2)
    /\ cargs.attn.dict["num_kv_heads"] = Some(1)
    /\ cfg.err = "none"
    /\ \E c \in cfg.obj : \E r \in c.attn :
           r["num_kv_heads"] = Some(1) /\ r["window_size"] = None

\* C4: for both classes, omitting test_scan_type yields train_scan_type,
\* omitting channel_mixer_dim yields 4 * hidden_size, omitting
\* decoder_channel_mixer_dim (video) yields 4 * decoder_hidden_size, and a
\* supplied value of any of these fields is stored as given.
C4_Defaults ==
    (Constructed /\ cfg.err = "none") =>
        /\ Cardinality(cfg.obj) = 1
        /\ \A c \in cfg.obj :
              /\ cargs.test_scan_type = None =>
                     c.test_scan_type = cargs.train_scan_type
              /\ \A v \in cargs.test_scan_type : c.test_scan_type = v
              /\ c.train_scan_type = cargs.train_scan_type
              /\ cargs.channel_mixer_dim = None =>
                     c.channel_mixer_dim = 4 * cargs.hidden_size
              /\ \A v \in cargs.channel_mixer_dim : c.channel_mixer_dim = v
              /\ cargs.class = "RWKV7VideoConfig" =>
                     /\ cargs.decoder_channel_mixer_dim = None =>
                            c.decoder_channel_mixer_dim =
                                Some(4 * cargs.decoder_hidden_size)
                     /\ \A v \in cargs.decoder_channel_mixer_dim :
                            c.decoder_channel_mixer_dim = Some(v)

C4_Witness ==
    /\ cargs.class = "RWKV7VideoConfig"
    /\ cargs.test_scan_type = None
    /\ cargs.train_scan_type = "bi-scan"
    /\ cargs.channel_mixer_dim = Some(0)
    /\ cargs.decoder_channel_mixer_dim = None
    /\ cfg.err = "none"
    /\ \E c \in cfg.obj :
           /\ c.test_scan_type = "bi-scan"
           /\ c.channel_mixer_dim = 0
           /\ c.decoder_channel_mixer_dim = Some(4 * cargs.decoder_hidden_size)

(***************************************************************************)
(* Claims about the initialisation procedures (checked under Spec).        *)
(***************************************************************************)
Called == call.proc # "none"
Returned == Called /\ call.err = "none"
Raised == Called /\ call.err # "none"

FamilyOf(proc) ==
    CASE proc = "init_from_fla_vision_und" -> "fla"
      [] proc \in {"init_from_dino2_base_p14", "init_from_dino2_small_p14"} -> "dino"
      [] proc = "init_from_siglip2_base_p16_224" -> "siglip"
      [] proc = "init_from_clip_base_p16_224" -> "clip"

FeedForwardNames == {n \in TgtNames : IsChannelMixer(n)}

\* t.squeeze(0)
Squeeze0(t) == [shape |-> Tail(t.shape), data |-> t.data]

\* the layouts a source position table can be copied in: as it is, with a
\* batch dimension added, or with the leading class-token position dropped
PosLayouts(t) ==
    {t, Unsqueeze0(t), Unsqueeze0(SliceFrom1(t))}
    \cup (IF Len(t.shape) = 3 THEN {Unsqueeze0(SliceFrom1(Squeeze0(t)))} ELSE {})

\* C5: after any of the five procedures returns normally from a call with
\* init_embedding=True, the target's patch-projection weight and bias and
\* its position embeddings are identical to the (possibly reshaped) source
\* tensors.
C5_EmbeddingsIdentical ==
    (Returned /\ call.init_embedding) =>
        \A s \in call.src :
            /\ TorchEqual(fla.params[TgtPatchW], s.params[SrcPatchWName(s.family)])
            /\ TorchEqual(fla.params[TgtPatchB], s.params[SrcPatchBName(s.family)])
            /\ fla.params[TgtPos] \in PosLayouts(s.params[SrcPosName(s.family)])

\* C6 as stated: after a call with train_mlp=False every feed-forward
\* parameter has gradient tracking disabled, and after a call with
\* train_mlp=True gradient tracking of every feed-forward parameter is
\* enabled.
C6_Original ==
    Returned =>
        /\ ~call.train_mlp => \A n \in FeedForwardNames : ~fla.requires_grad[n]
        /\ call.train_mlp => \A n \in FeedForwardNames : fla.requires_grad[n]

\* C6 (amended): after a call with train_mlp=False every feed-forward
\* parameter of the target has gradient tracking disabled; after a call with
\* train_mlp=True every requires_grad flag of the target is as it was before
\* the call (enabled if it was enabled, still disabled if it was disabled).
C6_FreezeOnly ==
    Returned =>
        /\ ~call.train_mlp =>
              /\ \A n \in FeedForwardNames : ~fla.requires_grad[n]
              /\ \A n \in TgtNames \ FeedForwardNames :
                    fla.requires_grad[n] = call.pre.requires_grad[n]
        /\ call.train_mlp => fla.requires_grad = call.pre.requires_grad

C6_Witness ==
    /\ Returned
    /\ call.train_mlp
    /\ call.proc = "init_from_fla_vision_und"
    /\ \A n \in FeedForwardNames : ~call.pre.requires_grad[n] /\ ~fla.requires_grad[n]
    /\ fla.requires_grad[TgtPatchW]

\* the source module the linearizer pairs with channel_mixer.net.0 (j = 7)
\* and channel_mixer.net.2 (j = 8)
FeedForwardSource(family, l, j, k) ==
    BlockName(SrcBlockPrefix(family), l,
              IF family = "fla"
                  THEN (IF j = 7 THEN <<"channel_mixer", "net", "0">>
                                 ELSE <<"channel_mixer", "net", "2">>)
                  ELSE (IF j = 7 THEN <<"mlp", "fc1">> ELSE <<"mlp", "fc2">>),
              Kinds[k])

\* C7 as stated: when train_mlp is false the feed-forward parameter values
\* after the call are the values they had before the call.
C7_Original ==
    (Returned /\ ~call.train_mlp) =>
        \A n \in FeedForwardNames : fla.params[n] = call.pre.params[n]

\* C7 (amended): the feed-forward block (channel_mixer.net.0 and
\* channel_mixer.net.2) is copied from the source whether train_mlp is true
\* or false; when train_mlp is false those parameters are in addition marked
\* non-trainable.
C7_FeedForwardAlwaysCopied ==
    Returned =>
        \A s \in call.src :
            /\ \A l \in LayerIds, j \in {7, 8}, k \in {1, 2} :
                  TorchEqual(fla.params[TgtBlock(l, j, k)],
                             s.params[FeedForwardSource(s.family, l, j, k)])
            /\ ~call.train_mlp => \A n \in FeedForwardNames : ~fla.requires_grad[n]

C7_Witness ==
    /\ Returned
    /\ ~call.train_mlp
    /\ call.proc = "init_from_dino2_base_p14"
    /\ \A n \in FeedForwardNames :
          /\ fla.params[n] # call.pre.params[n]
          /\ ~fla.requires_grad[n]
          /\ call.pre.requires_grad[n]

\* C8: in init_from_fla_vision_und and init_from_siglip2_base_p16_224, when
\* init_head is true the target's classifier weight equals the source's
\* after the call and the bias equals the source's bias if it has one and is
\* unchanged if it has none; when init_head is false the classifier weight
\* and bias are unchanged.
C8_ClassifierHead ==
    (Returned /\ call.proc \in {"init_from_fla_vision_und",
                                "init_from_siglip2_base_p16_224"}) =>
        \A s \in call.src :
            /\ call.init_head =>
                  /\ TorchEqual(fla.params[TgtClsW], s.params[SrcClsWName])
                  /\ SrcClsBName \in DOMAIN s.params =>
                        TorchEqual(fla.params[TgtClsB], s.params[SrcClsBName])
                  /\ SrcClsBName \notin DOMAIN s.params =>
                        fla.params[TgtClsB] = call.pre.params[TgtClsB]
            /\ ~call.init_head =>
                  /\ fla.params[TgtClsW] = call.pre.params[TgtClsW]
                  /\ fla.params[TgtClsB] = call.pre.params[TgtClsB]

\* the object the weights are copied from: the model passed in, the loaded
\* checkpoint (DINOv2), or the loaded checkpoint's vision sub-model
ExpectedSourceRef(proc) ==
    CASE proc = "init_from_fla_vision_und" -> "another_fla_model"
      [] proc \in {"init_from_dino2_base_p14", "init_from_dino2_small_p14"} -> "checkpoint"
      [] proc \in {"init_from_siglip2_base_p16_224", "init_from_clip_base_p16_224"} ->
             "checkpoint.vision_model"

\* C9: every procedure returns the target alone when return_pretrained is
\* false and the pair (target, source) when it is true; the returned target
\* is the model object the caller passed in, and the returned source is the
\* model the weights were copied from.
C9_ReturnValue ==
    Returned =>
        /\ fla.ref = "fla_model"
        /\ ~call.return_pretrained => call.ret = <<"fla_model">>
        /\ call.return_pretrained =>
              /\ call.ret = <<"fla_model", ExpectedSourceRef(call.proc)>>
              /\ \A s \in call.src :
                    /\ s.ref = call.ret[2]
                    /\ TorchEqual(fla.params[TgtBlock(0, 1, 1)],
                                  s.params[SrcBlock(s.family, 0, 1, 1)])

C9_Witness ==
    /\ Returned
    /\ call.proc = "init_from_clip_base_p16_224"
    /\ call.return_pretrained
    /\ call.ret = <<"fla_model", "checkpoint.vision_model">>

FailedStep == call.trace[Len(call.trace)]

EmbeddingSteps ==
    {"copy_patch_weight", "copy_patch_bias", "copy_position",
     "assert_patch_weight", "assert_patch_bias", "assert_position"}
HeadSteps == {"copy_classifier_weight", "copy_classifier_bias"}

\* the value a completed copy_ of src leaves in the parameter n
AppliedCopy(n, src) == fla.params[n] = CopyInto(call.pre.params[n], src).t

\* the source position table in the layout the procedure copies
CopiedPos(s) ==
    CASE s.family = "fla" -> s.params[SrcPosName("fla")]
      [] s.family = "siglip" -> Unsqueeze0(s.params[SrcPosName("siglip")])
      [] s.family = "clip" -> Unsqueeze0(SliceFrom1(s.params[SrcPosName("clip")]))

\* C10: a failure at any step surfaces to the caller: nothing is returned,
\* no step runs twice, no later step runs (what the later steps write is as
\* before the call), every copy completed before the failing step stays
\* applied to the target, and a checkpoint-load failure leaves the target
\* unchanged.
C10_FailureSurfaces ==
    Raised =>
        /\ call.ret = <<>>
        /\ \A i, j \in 1..Len(call.trace) : call.trace[i] = call.trace[j] => i = j
        /\ FailedStep = "load" => (fla = call.pre /\ call.src = None)
        /\ FailedStep # "load" => \E s \in call.src :
              \* a failure of the name-mapping copy: nothing after it ran
              /\ FailedStep = "mapping" =>
                    /\ fla.requires_grad = call.pre.requires_grad
                    /\ \A n \in TgtNames \ TgtBlockNames :
                          fla.params[n] = call.pre.params[n]
              \* a later failure: the name-mapping copy stays applied
              /\ FailedStep # "mapping" =>
                    \A l \in LayerIds, j \in 1..Len(MappingKeys), k \in {1, 2} :
                        TorchEqual(fla.params[TgtBlock(l, j, k)],
                                   s.params[SrcBlock(s.family, l, j, k)])
              \* a failure in the embedding block: the copies made before
              \* the failing step stay, the later ones were not made
              /\ FailedStep \in EmbeddingSteps =>
                    /\ FailedStep # "copy_patch_weight" =>
                          AppliedCopy(TgtPatchW, s.params[SrcPatchWName(s.family)])
                    /\ FailedStep \notin {"copy_patch_weight", "copy_patch_bias"} =>
                          AppliedCopy(TgtPatchB, s.params[SrcPatchBName(s.family)])
                    /\ FailedStep \notin {"copy_patch_weight", "copy_patch_bias",
                                          "copy_position"} =>
                          AppliedCopy(TgtPos, CopiedPos(s))
                    /\ FailedStep = "copy_position" =>
                          fla.params[TgtPos] = call.pre.params[TgtPos]
                    /\ fla.params[TgtClsW] = call.pre.params[TgtClsW]
                    /\ fla.params[TgtClsB] = call.pre.params[TgtClsB]
                    \* the freeze follows the embedding block in SigLIP2 and CLIP
                    /\ s.family \in {"siglip", "clip"} =>
                          fla.requires_grad = call.pre.requires_grad
                    /\ (s.family = "fla" /\ ~call.train_mlp) =>
                          \A n \in FeedForwardNames : ~fla.requires_grad[n]
              \* a failure of the head copy: everything before it stays
              /\ FailedStep \in HeadSteps =>
                    /\ call.init_embedding =>
                          /\ AppliedCopy(TgtPatchW, s.params[SrcPatchWName(s.family)])
                          /\ AppliedCopy(TgtPatchB, s.params[SrcPatchBName(s.family)])
                          /\ AppliedCopy(TgtPos, CopiedPos(s))
                    /\ ~call.train_mlp =>
                          \A n \in FeedForwardNames : ~fla.requires_grad[n]
                    /\ FailedStep = "copy_classifier_weight" =>
                          /\ fla.params[TgtClsW] = call.pre.params[TgtClsW]
                          /\ fla.params[TgtClsB] = call.pre.params[TgtClsB]

C10_Witness ==
    /\ Raised
    /\ call.err = "AssertionError"
    /\ FailedStep = "assert_patch_bias"
    /\ call.proc = "init_from_clip_base_p16_224"
    /\ fla.params[TgtPatchW] # call.pre.params[TgtPatchW]
    /\ fla.params[TgtPos] # call.pre.params[TgtPos]
    /\ call.ret = <<>>

\* row j (0-based) of a table whose last dimension is the row width
RowOf(t, j) ==
    SubSeq(t.data, j * t.shape[Len(t.shape)] + 1, (j + 1) * t.shape[Len(t.shape)])

\* the values held by some row of the target's position embeddings
TargetPosValues ==
    {fla.params[TgtPos].data[i] : i \in 1..Len(fla.params[TgtPos].data)}

\* C11: with init_embedding=True the position embeddings are copied with the
\* source-specific layout: in init_from_clip_base_p16_224 target [0][j] is
\* source row j+1 and source row 0 is copied nowhere; in
\* init_from_siglip2_base_p16_224 target [0][j] is source row j; in
\* init_from_fla_vision_und the tensor is copied as it is.
C11_PositionLayout ==
    (Returned /\ call.init_embedding) =>
        \A s \in call.src :
            LET t == fla.params[TgtPos]
                w == s.params[SrcPosName(s.family)]
            IN /\ s.family = "clip" =>
                     /\ t.shape = <<1, w.shape[1] - 1, w.shape[2]>>
                     /\ \A j \in 0..(t.shape[2] - 1) : RowOf(t, j) = RowOf(w, j + 1)
                     /\ \A i \in 1..Len(RowOf(w, 0)) :
                           RowOf(w, 0)[i] \notin TargetPosValues
               /\ s.family = "siglip" =>
                     /\ t.shape = <<1, w.shape[1], w.shape[2]>>
                     /\ \A j \in 0..(t.shape[2] - 1) : RowOf(t, j) = RowOf(w, j)
               /\ s.family = "fla" => t = w

C11_Witness ==
    /\ Returned
    /\ call.init_embedding
    /\ call.proc = "init_from_clip_base_p16_224"
    /\ \E s \in call.src :
          /\ s.params[SrcPosName("clip")].shape = <<NumPatches + 1, HiddenDim>>
          /\ RowOf(fla.params[TgtPos], 0) = RowOf(s.params[SrcPosName("clip")], 1)
          /\ fla.params[TgtPos] # call.pre.params[TgtPos]

\* C12: the source model is read only: for every procedure and every
\* combination of flags, every parameter value and every requires_grad flag
\* of the source is the same after the call as before it; only the target
\* is mutated.
C12_SourceReadOnly ==
    Called =>
        /\ call.srcAfter = call.src
        /\ \A s \in call.src : \A a \in call.srcAfter :
              /\ DOMAIN a.params = DOMAIN s.params
              /\ \A n \in DOMAIN s.params :
                    /\ a.params[n] = s.params[n]
                    /\ a.requires_grad[n] = s.requires_grad[n]

C12_Witness ==
    /\ Returned
    /\ call.proc = "init_from_fla_vision_und"
    /\ ~call.train_mlp
    /\ call.init_embedding
    /\ call.init_head
    /\ fla.params # call.pre.params
    /\ fla.requires_grad # call.pre.requires_grad
    /\ \E s \in call.src : \E a \in call.srcAfter :
          /\ a = s
          /\ \A n \in DOMAIN a.requires_grad : a.requires_grad[n]

\* C13: for both classes, a dictionary descriptor that has 'layers' and
\* 'num_heads' is modified in place: after the call the caller's dictionary
\* object holds num_kv_heads (num_heads when it was absent) and window_size
\* (None when it was absent) next to its own entries, and the config.attn the
\* constructor assigned is that same object; a descriptor without 'layers'
\* or without 'num_heads' is left as the caller passed it.
C13_CallerDictInPlace ==
    (Constructed /\ cargs.attn.kind = "dict") =>
        LET d == cargs.attn.dict
        IN /\ ({"layers", "num_heads"} \subseteq DOMAIN d) =>
                  /\ DOMAIN callerAttn = DOMAIN d \cup {"num_kv_heads", "window_size"}
                  /\ \A k \in DOMAIN d : callerAttn[k] = d[k]
                  /\ "num_kv_heads" \notin DOMAIN d =>
                         callerAttn["num_kv_heads"] = d["num_heads"]
                  /\ "window_size" \notin DOMAIN d =>
                         callerAttn["window_size"] = None
                  /\ \A c \in cfg.obj :
                         c.attn_is_arg /\ c.attn = Some(callerAttn)
           /\ ~({"layers", "num_heads"} \subseteq DOMAIN d) =>
                  callerAttn = d /\ cfg.obj = {}

C13_Witness ==
    /\ Constructed
    /\ cargs.attn.kind = "dict"
    /\ DOMAIN cargs.attn.dict = {"layers", "num_heads"}
    /\ callerAttn # cargs.attn.dict
    /\ callerAttn["num_kv_heads"] = cargs.attn.dict["num_heads"]
    /\ cfg.err = "none"
    /\ \E c \in cfg.obj : c.attn_is_arg /\ c.attn = Some(callerAttn)
====
